---- MODULE Spec2Model ----
(***************************************************************************)
(* Model of the image-compressor client (src/src/components/               *)
(* ImageCompressor.tsx) and of the compression endpoint it calls           *)
(* (src/src/app/api/compress/route.ts).                                    *)
(*                                                                         *)
(* The component is a React function component: its state is the set of    *)
(* useState cells, every event handler runs to completion on the UI event  *)
(* loop, and the only suspension point of handleCompress is the awaited    *)
(* remote call.  Sizes are JavaScript numbers, so the estimator and the     *)
(* overall percentage are modelled with IEEE-754 binary64 arithmetic       *)
(* (round-to-nearest-even) on exact mantissas held as multi-limb naturals. *)
(*                                                                         *)
(* Specifications: Spec is the session (uploads, selections, batches,      *)
(* removals), LiveSpec adds that every open call returns, EstSpec applies  *)
(* the estimator to single arguments, StatsSpec computes the statistics    *)
(* of the panel on given collections, and ViewSpec applies the archive     *)
(* download to them.                                                       *)
(***************************************************************************)
EXTENDS Integers, Sequences, FiniteSets, TLC

VARIABLES images, quality, qualityPreset, outputFormat, isCompressing,
          batch, inflight, revoked, nextId, estCall, isDownloading, zip, saved, zipCalls

vars == <<images, quality, qualityPreset, outputFormat, isCompressing,
          batch, inflight, revoked, nextId, estCall, isDownloading, zip, saved, zipCalls>>

(***************************************************************************)
(* Arbitrary-size naturals: little-endian sequences of 15-bit limbs with   *)
(* no leading zero limb (zero is the empty sequence).                      *)
(***************************************************************************)
LimbBits == 15
Base == 32768

Min(a, b) == IF a < b THEN a ELSE b

RECURSIVE Pow2(_)
Pow2(n) == IF n = 0 THEN 1 ELSE 2 * Pow2(n - 1)

RECURSIVE Trim(_)
Trim(a) == IF a # <<>> /\ a[Len(a)] = 0 THEN Trim(SubSeq(a, 1, Len(a) - 1)) ELSE a

RECURSIVE BigFromInt(_)
BigFromInt(n) == IF n = 0 THEN <<>> ELSE <<n % Base>> \o BigFromInt(n \div Base)

RECURSIVE BigToInt(_)
BigToInt(a) == IF a = <<>> THEN 0 ELSE a[1] + Base * BigToInt(Tail(a))

RECURSIVE BigMulSmall(_, _, _)
BigMulSmall(a, k, carry) ==
    IF a = <<>> THEN BigFromInt(carry)
    ELSE LET t == a[1] * k + carry
         IN  <<t % Base>> \o BigMulSmall(Tail(a), k, t \div Base)

RECURSIVE BigAdd(_, _, _)
BigAdd(a, b, carry) ==
    IF a = <<>> /\ b = <<>> THEN BigFromInt(carry)
    ELSE LET x == IF a = <<>> THEN 0 ELSE a[1]
             y == IF b = <<>> THEN 0 ELSE b[1]
             t == x + y + carry
         IN  <<t % Base>> \o BigAdd(IF a = <<>> THEN a ELSE Tail(a),
                                    IF b = <<>> THEN b ELSE Tail(b), t \div Base)

ShiftLimbs(a, n) == IF a = <<>> THEN a ELSE [i \in 1..n |-> 0] \o a

RECURSIVE BigMul(_, _)
BigMul(a, b) ==
    IF b = <<>> THEN <<>>
    ELSE Trim(BigAdd(BigMulSmall(a, b[1], 0), ShiftLimbs(BigMul(a, Tail(b)), 1), 0))

BigShl(a, s) == ShiftLimbs(Trim(BigMulSmall(a, Pow2(s % LimbBits), 0)), s \div LimbBits)

\* quotient and remainder of a by a divisor k < Base
RECURSIVE BigDivSmall(_, _)
BigDivSmall(a, k) ==
    IF a = <<>> THEN [q |-> <<>>, r |-> 0]
    ELSE LET hi == BigDivSmall(Tail(a), k)
             t  == hi.r * Base + a[1]
         IN  [q |-> Trim(<<t \div k>> \o hi.q), r |-> t % k]

BigShr(a, s) == BigDivSmall(SubSeq(a, s \div LimbBits + 1, Len(a)), Pow2(s % LimbBits)).q

RECURSIVE SmallBitLen(_)
SmallBitLen(n) == IF n = 0 THEN 0 ELSE 1 + SmallBitLen(n \div 2)

BitLen(a) == IF a = <<>> THEN 0 ELSE LimbBits * (Len(a) - 1) + SmallBitLen(a[Len(a)])

Bit(a, i) == IF i \div LimbBits + 1 > Len(a) THEN 0
             ELSE (a[i \div LimbBits + 1] \div Pow2(i % LimbBits)) % 2

\* bits 0 .. i-1 of a are all zero
LowBitsZero(a, i) ==
    /\ \A j \in 1..Min(i \div LimbBits, Len(a)) : a[j] = 0
    /\ \/ i \div LimbBits + 1 > Len(a)
       \/ a[i \div LimbBits + 1] % Pow2(i % LimbBits) = 0

(***************************************************************************)
(* JavaScript numbers: a non-negative binary64 value is [m, e], standing   *)
(* for m * 2^e with m < 2^53 (or m = 2^53 after a carry).  Every operation *)
(* computes the exact result and rounds it to 53 significant bits, ties to *)
(* even.  The values met here are far from overflow and underflow.         *)
(***************************************************************************)
MantissaBits == 53
DivShift == 75

RoundToDouble(m, e, sticky) ==
    LET n == BitLen(m)
    IN  IF n <= MantissaBits THEN [m |-> m, e |-> e]
        ELSE LET s    == n - MantissaBits
                 q    == BigShr(m, s)
                 g    == Bit(m, s - 1)
                 st   == sticky \/ ~LowBitsZero(m, s - 1)
                 up   == g = 1 /\ (st \/ Bit(q, 0) = 1)
             IN  [m |-> IF up THEN Trim(BigAdd(q, <<1>>, 0)) ELSE q, e |-> e + s]

NumFromInt(n) == [m |-> BigFromInt(n), e |-> 0]

\* n / k for integers n >= 0, 0 < k < Base; also the value of the decimal
\* literal n/k (0.7 is the double nearest to 7/10)
NumDiv(n, k) ==
    LET d == BigDivSmall(BigShl(BigFromInt(n), DivShift), k)
    IN  RoundToDouble(d.q, 0 - DivShift, d.r # 0)

NumMul(a, b) == RoundToDouble(BigMul(a.m, b.m), a.e + b.e, FALSE)

NumAdd(a, b) ==
    LET e == Min(a.e, b.e)
    IN  RoundToDouble(Trim(BigAdd(BigShl(a.m, a.e - e), BigShl(b.m, b.e - e), 0)), e, FALSE)

\* Math.round: floor(v + 1/2), as an integer
MathRound(v) ==
    IF v.e >= 0 THEN BigToInt(BigShl(v.m, v.e))
    ELSE BigToInt(BigShr(Trim(BigAdd(v.m, BigShl(<<1>>, 0 - v.e - 1), 0)), 0 - v.e))

\* a - b for a >= b
RECURSIVE BigSub(_, _, _)
BigSub(a, b, borrow) ==
    IF a = <<>> THEN <<>>
    ELSE LET y == IF b = <<>> THEN 0 ELSE b[1]
             t == a[1] - y - borrow
         IN  <<IF t < 0 THEN t + Base ELSE t>> \o
             BigSub(Tail(a), IF b = <<>> THEN b ELSE Tail(b), IF t < 0 THEN 1 ELSE 0)

\* a < b, for numbers without leading zero limbs
RECURSIVE BigLess(_, _)
BigLess(a, b) ==
    IF Len(a) # Len(b) THEN Len(a) < Len(b)
    ELSE IF a = <<>> THEN FALSE
    ELSE IF a[Len(a)] # b[Len(b)] THEN a[Len(a)] < b[Len(b)]
    ELSE BigLess(Trim(SubSeq(a, 1, Len(a) - 1)), Trim(SubSeq(b, 1, Len(b) - 1)))

\* the quotient n / k is developed ChunkBits bits at a time, until it is
\* exact or has more bits than a mantissa and its guard bit; k stays below
\* 2^(31 - ChunkBits)
ChunkBits == 5

\* [q, r, shift]: q = floor(n * 2^shift / k) and r the remainder, from the
\* integer part q = n \div k, r = n % k, shift = 0
RECURSIVE LongDivision(_, _, _, _)
LongDivision(q, r, k, shift) ==
    IF r = 0 \/ BitLen(q) > MantissaBits + 1
    THEN [q |-> q, r |-> r, shift |-> shift]
    ELSE LET t == r * Pow2(ChunkBits)
         IN  LongDivision(Trim(BigMulSmall(q, Pow2(ChunkBits), t \div k)), t % k, k,
                          shift + ChunkBits)

\* n / k for integers n >= 0 and k > 0 held in numbers
NumQuotient(n, k) ==
    LET d == LongDivision(BigFromInt(n \div k), n % k, k, 0)
    IN  RoundToDouble(d.q, 0 - d.shift, d.r # 0)

\* a < b
NumLess(a, b) ==
    LET e == Min(a.e, b.e)
    IN  BigLess(Trim(BigShl(a.m, a.e - e)), Trim(BigShl(b.m, b.e - e)))

\* a - b for a >= b
NumSub(a, b) ==
    LET e == Min(a.e, b.e)
    IN  RoundToDouble(Trim(BigSub(BigShl(a.m, a.e - e), BigShl(b.m, b.e - e), 0)), e, FALSE)

\* Math.round of the negative number -v, as the integer k with result -k:
\* floor(-v + 1/2) = -ceil(v - 1/2)
MathRoundNeg(v) ==
    IF v.e >= 0 THEN BigToInt(BigShl(v.m, v.e))
    ELSE LET half == BigShl(<<1>>, 0 - v.e - 1)
         IN  BigToInt(BigShr(Trim(BigSub(Trim(BigAdd(v.m, half, 0)), <<1>>, 0)), 0 - v.e))

(***************************************************************************)
(* The estimator.                                                          *)
(***************************************************************************)
Presets == {"high", "medium", "low", "custom"}

QUALITY_FACTORS == [high |-> NumDiv(7, 10), medium |-> NumDiv(45, 100), low |-> NumDiv(25, 100)]

\* the custom branch taken for every preset
estimateSize_anyPreset(originalSize, preset, customQuality) ==
    IF customQuality # 0
    THEN LET factor == NumAdd(NumDiv(1, 10), NumMul(NumDiv(customQuality, 100), NumDiv(6, 10)))
         IN  MathRound(NumMul(NumFromInt(originalSize), factor))
    ELSE MathRound(NumMul(NumFromInt(originalSize),
                          IF preset \in DOMAIN QUALITY_FACTORS
                          THEN QUALITY_FACTORS[preset] ELSE NumDiv(45, 100)))

\* the custom factor with a slope of 0.5 instead of 0.6
estimateSize_slope(originalSize, preset, customQuality) ==
    IF preset = "custom" /\ customQuality # 0
    THEN LET factor == NumAdd(NumDiv(1, 10), NumMul(NumDiv(customQuality, 100), NumDiv(5, 10)))
         IN  MathRound(NumMul(NumFromInt(originalSize), factor))
    ELSE MathRound(NumMul(NumFromInt(originalSize),
                          IF preset \in DOMAIN QUALITY_FACTORS
                          THEN QUALITY_FACTORS[preset] ELSE NumDiv(45, 100)))

estimateSize(originalSize, preset, customQuality) ==
    IF preset = "custom" /\ customQuality # 0
    THEN LET factor == NumAdd(NumDiv(1, 10), NumMul(NumDiv(customQuality, 100), NumDiv(6, 10)))
         IN  MathRound(NumMul(NumFromInt(originalSize), factor))
    ELSE MathRound(NumMul(NumFromInt(originalSize),
                          IF preset \in DOMAIN QUALITY_FACTORS
                          THEN QUALITY_FACTORS[preset] ELSE NumDiv(45, 100)))


(***************************************************************************)
(* Bounds of the model and the values the environment supplies.            *)
(***************************************************************************)
MaxUploads == 2        \* files accepted over a whole run
MaxDrop == 2           \* files accepted by one drop
MaxSourceBytes == 20   \* the estimator is applied to every size 0..MaxSourceBytes
MaxZipCalls == 2       \* calls of handleDownloadZip over a whole run
\* further sizes the estimator is applied to
ScenarioSizes == {45, 1000000}
SourceSizes == (0..MaxSourceBytes) \cup ScenarioSizes
SliderRange == 10..100

\* an optional field is a sequence of length at most one
None == <<>>
Some(v) == <<v>>

\* File objects handed over by the upload surface: name, byte size and the
\* encoding and dimensions sharp detects in them
\* (a name is the sequence of its characters)
Files == { [name |-> <<"a", ".", "j", "p", "g">>, size |-> 1000000, format |-> "jpeg",
            width |-> 4, height |-> 3] }

\* positions the range input (min 10, max 100) is moved to
SliderValues == {55}
\* byte lengths of the buffers sharp produces
CompressedSizes == {300000}

\* the format buttons pressed, out of original, jpeg, png and webp
OutputFormats == {"original", "webp"}

PresetQuality == [high |-> 90, medium |-> 70, low |-> 50]
QualityValues == SliderValues \cup {PresetQuality[p] : p \in DOMAIN PresetQuality}

\* the files of the collections the statistics and the archive are computed
\* for: two files with the same stem, and an empty file sharp rejects
ViewFiles ==
    Files \cup
    { [name |-> <<"a", ".", "p", "n", "g">>, size |-> 500000, format |-> "png", width |-> 2, height |-> 2],
      [name |-> <<"e", ".", "g", "i", "f">>, size |-> 0, format |-> "gif", width |-> 0, height |-> 0] }
\* byte lengths of the buffers sharp produces for them (one of them longer
\* than its source)
ViewCompressedSizes == {200000, 300000, 600000}
\* Date.now() at the moment an archive is saved
Timestamps == {1}

\* the useCallback-memoised estimator on the sizes and selections of a run
EstimateMemo ==
    [x \in {f.size : f \in ViewFiles}, p \in Presets, q \in QualityValues |-> estimateSize(x, p, q)]

(***************************************************************************)
(* Number <-> string conversions of the request (quality.toString() in the *)
(* client, parseInt(...) || 80 in the route).                              *)
(***************************************************************************)
RECURSIVE toString(_)
toString(n) == IF n < 10 THEN <<n>> ELSE toString(n \div 10) \o <<n % 10>>

RECURSIVE parseInt(_)
parseInt(str) == IF Len(str) = 1 THEN str[1]
                 ELSE 10 * parseInt(SubSeq(str, 1, Len(str) - 1)) + str[Len(str)]

(***************************************************************************)
(* The compression endpoint, route.ts POST.  sharp is outside the          *)
(* repository: sharpOut is what it does with the buffer, None when it      *)
(* throws, otherwise the byte length of the encoded buffer.                *)
(***************************************************************************)
\* ((1 - compressedSize / originalSize) * 100).toFixed(2), in hundredths of
\* a percent (two decimals, nearest)
compressionRatio(compressedSize, originalSize) ==
    LET d    == IF originalSize >= compressedSize THEN originalSize - compressedSize
                ELSE compressedSize - originalSize
        whole == (d * 100) \div originalSize
        rest  == (d * 100) % originalSize
        mag   == whole * 100 + (2 * rest * 100 + originalSize) \div (2 * originalSize)
    IN  IF originalSize >= compressedSize THEN mag ELSE 0 - mag

POST(request, sharpOut) ==
    LET file         == request.file
        q            == IF parseInt(request.quality) = 0 THEN 80 ELSE parseInt(request.quality)
        format       == request.format
        wanted       == IF format = "original" THEN file.format ELSE format
        outputFmt    == IF wanted \in {"png", "webp", "avif"} THEN wanted ELSE "jpeg"
    IN  IF sharpOut = None \/ file.size = 0
        THEN [ok |-> FALSE, status |-> 500, body |-> [error |-> "image compression failed"]]
        ELSE [ok |-> TRUE, status |-> 200,
              body |-> [success |-> TRUE,
                        original |-> [name |-> file.name, size |-> file.size, width |-> file.width,
                                      height |-> file.height, format |-> file.format],
                        compressed |-> [size |-> sharpOut[1], width |-> file.width, height |-> file.height,
                                        format |-> outputFmt,
                                        base64 |-> [mime |-> <<"image", outputFmt>>,
                                                    data |-> <<file.name, sharpOut[1]>>]],
                        compressionRatio |-> compressionRatio(sharpOut[1], file.size)]]

(***************************************************************************)
(* The component.                                                          *)
(***************************************************************************)
\* the overall rate shown in the statistics panel:
\* totalOriginalSize > 0 ? Math.round((1 - totalCompressedSize / totalOriginalSize) * 100) : 0
compressionPercent(compressed, original) ==
    IF original > 0
    THEN LET ratio == NumQuotient(compressed, original)
             one   == NumFromInt(1)
         IN  IF NumLess(one, ratio)
             THEN 0 - MathRoundNeg(NumMul(NumSub(ratio, one), NumFromInt(100)))
             ELSE MathRound(NumMul(NumSub(one, ratio), NumFromInt(100)))
    ELSE 0

IdleBatch == [active |-> FALSE, pendingImages |-> <<>>, idx |-> 0, quality |-> 0,
              outputFormat |-> "", issued |-> <<>>, returned |-> <<>>]
IdleCall == [originalSize |-> 0, preset |-> "", customQuality |-> 0, result |-> None]

Init ==
    /\ images = <<>>
    /\ quality = 70
    /\ qualityPreset = "medium"
    /\ outputFormat = "original"
    /\ isCompressing = FALSE
    /\ batch = IdleBatch
    /\ inflight = {}
    /\ revoked = [h \in 1..MaxUploads |-> 0]
    /\ nextId = 1
    /\ estCall = IdleCall
    /\ isDownloading = FALSE
    /\ zip = None
    /\ saved = <<>>
    /\ zipCalls = 0

\* the effect skipping the records that are done
reestimate_notDone(imgs, preset, q) ==
    IF Len(imgs) > 0
    THEN [i \in DOMAIN imgs |->
            IF imgs[i].status = "done" THEN imgs[i]
            ELSE [imgs[i] EXCEPT !.estimatedSize = EstimateMemo[imgs[i].originalSize, preset, q]]]
    ELSE imgs

\* the effect on [qualityPreset, quality]: every record gets a new estimate
reestimate(imgs, preset, q) ==
    IF Len(imgs) > 0
    THEN [i \in DOMAIN imgs |->
            [imgs[i] EXCEPT !.estimatedSize = EstimateMemo[imgs[i].originalSize, preset, q]]]
    ELSE imgs

newImage(file, n) ==
    [id |-> n, file |-> file, preview |-> n, status |-> "pending", originalSize |-> file.size,
     estimatedSize |-> EstimateMemo[file.size, qualityPreset, quality],
     original |-> None, compressed |-> None, compressionRatio |-> None, error |-> None]

onDrop(acceptedFiles) ==
    /\ nextId + Len(acceptedFiles) - 1 <= MaxUploads
    /\ images' = images \o [i \in DOMAIN acceptedFiles |-> newImage(acceptedFiles[i], nextId + i - 1)]
    /\ nextId' = nextId + Len(acceptedFiles)
    /\ UNCHANGED <<quality, qualityPreset, outputFormat, isCompressing, batch, inflight, revoked, estCall, isDownloading, zip, saved, zipCalls>>

\* A handler that sets the state cells to the values they hold makes React
\* bail out: nothing is rendered and no effect runs.  Such a click is a
\* stuttering step, so the handlers below are enabled for changes only, and
\* the effect on [qualityPreset, quality] is part of the step.
handleQualityPreset(preset) ==
    LET q == IF preset \in DOMAIN PresetQuality THEN PresetQuality[preset] ELSE quality
    IN  /\ preset # qualityPreset \/ q # quality
        /\ qualityPreset' = preset
        /\ quality' = q
        /\ images' = reestimate(images, preset, q)
        /\ UNCHANGED <<outputFormat, isCompressing, batch, inflight, revoked, nextId, estCall, isDownloading, zip, saved, zipCalls>>

\* onChange of the range input, rendered only under the custom preset
setQuality(value) ==
    /\ qualityPreset = "custom"
    /\ value # quality
    /\ quality' = value
    /\ images' = reestimate(images, qualityPreset, value)
    /\ UNCHANGED <<qualityPreset, outputFormat, isCompressing, batch, inflight, revoked, nextId, estCall, isDownloading, zip, saved, zipCalls>>

setOutputFormat(format) ==
    /\ format # outputFormat
    /\ outputFormat' = format
    /\ UNCHANGED <<images, quality, qualityPreset, isCompressing, batch, inflight, revoked, nextId, estCall, isDownloading, zip, saved, zipCalls>>

\* the FormData compressImage posts for one record
formData(image, q, format) ==
    [id |-> image.id, file |-> image.file, quality |-> toString(q), format |-> format]

\* every remaining call started at once
callsIssued_all(b, idx) ==
    {[id |-> b.pendingImages[k].id, file |-> b.pendingImages[k].file,
      quality |-> toString(b.quality), format |-> b.outputFormat] : k \in idx..Len(b.pendingImages)}

\* the call made with the selection of the moment it is issued
callsIssued_current(b, idx) == {formData(b.pendingImages[idx], quality, outputFormat)}

\* the calls the batch loop has open once it has come to pendingImages[idx]
callsIssued(b, idx) == {formData(b.pendingImages[idx], b.quality, b.outputFormat)}

\* the catch branch leaving the status as it was
compressImage_noErrorStatus(image, response) ==
    IF response.kind = "ok"
    THEN [image EXCEPT !.status = "done",
                       !.original = Some(response.body[1].original),
                       !.compressed = Some(response.body[1].compressed),
                       !.compressionRatio = Some(response.body[1].compressionRatio)]
    ELSE [image EXCEPT !.error = Some(response.message)]

\* what compressImage returns for the record it was given and the response
compressImage(image, response) ==
    IF response.kind = "ok"
    THEN [image EXCEPT !.status = "done",
                       !.original = Some(response.body[1].original),
                       !.compressed = Some(response.body[1].compressed),
                       !.compressionRatio = Some(response.body[1].compressionRatio)]
    ELSE [image EXCEPT !.status = "error", !.error = Some(response.message)]

\* the result put into the collection also when its record is gone
replaceById_upsert(imgs, compressed) ==
    IF \E i \in DOMAIN imgs : imgs[i].id = compressed.id
    THEN [i \in DOMAIN imgs |-> IF imgs[i].id = compressed.id THEN compressed ELSE imgs[i]]
    ELSE Append(imgs, compressed)

\* setImages(prev => prev.map(img => img.id === compressed.id ? compressed : img))
replaceById(imgs, compressed) ==
    [i \in DOMAIN imgs |-> IF imgs[i].id = compressed.id THEN compressed ELSE imgs[i]]

\* failed records taken up again
markCompressing_retry(imgs) ==
    [i \in DOMAIN imgs |-> IF imgs[i].status \in {"pending", "error"}
                           THEN [imgs[i] EXCEPT !.status = "compressing"] ELSE imgs[i]]

markCompressing(imgs) ==
    [i \in DOMAIN imgs |-> IF imgs[i].status = "pending"
                           THEN [imgs[i] EXCEPT !.status = "compressing"] ELSE imgs[i]]

\* click on the compress button (disabled while isCompressing or when no
\* record is pending), up to the first awaited fetch
handleCompress ==
    /\ ~isCompressing
    /\ \E i \in DOMAIN images : images[i].status = "pending"
    /\ Len(images) # 0
    /\ LET pendingImages == SelectSeq(images, LAMBDA img : img.status \in {"pending", "compressing"})
           b == [active |-> TRUE, pendingImages |-> pendingImages, idx |-> 1, quality |-> quality,
                 outputFormat |-> outputFormat, issued |-> <<pendingImages[1].id>>, returned |-> <<>>]
       IN  /\ batch' = b
           /\ inflight' = inflight \cup callsIssued(b, 1)
    /\ isCompressing' = TRUE
    /\ images' = markCompressing(images)
    /\ UNCHANGED <<quality, qualityPreset, outputFormat, revoked, nextId, estCall, isDownloading, zip, saved, zipCalls>>

\* the ways the awaited call of compressImage can end: the route's answer
\* (200 with its JSON body, or 500), a rejected fetch, or a body that
\* response.json() cannot parse
ResponsesFor(request, sizes) ==
    {LET answer == POST(request, sharpOut)
     IN  IF answer.ok THEN [kind |-> "ok", body |-> Some(answer.body), message |-> ""]
         ELSE [kind |-> "http", body |-> None, message |-> "compression failed"] :
        sharpOut \in {None} \cup {Some(n) : n \in sizes}}
    \cup {[kind |-> "transport", body |-> None, message |-> "Failed to fetch"],
          [kind |-> "parse", body |-> None, message |-> "Unexpected token"]}

Responses(request) == ResponsesFor(request, CompressedSizes)

\* the loop left at the first failed call
callReturns_abort(request, response) ==
    /\ request \in inflight
    /\ batch.active
    /\ request.id = batch.pendingImages[batch.idx].id
    /\ LET compressed == compressImage(batch.pendingImages[batch.idx], response)
           ret == Append(batch.returned, [id |-> request.id, response |-> response,
                                          present |-> \E i \in DOMAIN images : images[i].id = request.id])
       IN  /\ images' = replaceById(images, compressed)
           /\ IF batch.idx < Len(batch.pendingImages) /\ response.kind = "ok"
              THEN /\ batch' = [batch EXCEPT !.idx = @ + 1, !.returned = ret,
                                  !.issued = Append(@, batch.pendingImages[batch.idx + 1].id)]
                   /\ inflight' = (inflight \ {request}) \cup callsIssued(batch, batch.idx + 1)
                   /\ isCompressing' = isCompressing
              ELSE /\ batch' = IdleBatch
                   /\ inflight' = inflight \ {request}
                   /\ isCompressing' = FALSE
    /\ UNCHANGED <<quality, qualityPreset, outputFormat, revoked, nextId, estCall, isDownloading, zip, saved, zipCalls>>

\* the loop ending without setIsCompressing(false)
callReturns_flagStays(request, response) ==
    /\ request \in inflight
    /\ batch.active
    /\ request.id = batch.pendingImages[batch.idx].id
    /\ LET compressed == compressImage(batch.pendingImages[batch.idx], response)
           ret == Append(batch.returned, [id |-> request.id, response |-> response,
                                          present |-> \E i \in DOMAIN images : images[i].id = request.id])
       IN  /\ images' = replaceById(images, compressed)
           /\ IF batch.idx < Len(batch.pendingImages)
              THEN /\ batch' = [batch EXCEPT !.idx = @ + 1, !.returned = ret,
                                  !.issued = Append(@, batch.pendingImages[batch.idx + 1].id)]
                   /\ inflight' = (inflight \ {request}) \cup callsIssued(batch, batch.idx + 1)
                   /\ isCompressing' = isCompressing
              ELSE /\ batch' = IdleBatch
                   /\ inflight' = inflight \ {request}
                   /\ isCompressing' = isCompressing
    /\ UNCHANGED <<quality, qualityPreset, outputFormat, revoked, nextId, estCall, isDownloading, zip, saved, zipCalls>>

\* the awaited call returns: compressImage builds the new record, the loop
\* stores it and goes on to the next record or ends the batch
callReturns(request, response) ==
    /\ request \in inflight
    /\ batch.active
    /\ request.id = batch.pendingImages[batch.idx].id
    /\ LET compressed == compressImage(batch.pendingImages[batch.idx], response)
           ret == Append(batch.returned, [id |-> request.id, response |-> response,
                                          present |-> \E i \in DOMAIN images : images[i].id = request.id])
       IN  /\ images' = replaceById(images, compressed)
           /\ IF batch.idx < Len(batch.pendingImages)
              THEN /\ batch' = [batch EXCEPT !.idx = @ + 1, !.returned = ret,
                                  !.issued = Append(@, batch.pendingImages[batch.idx + 1].id)]
                   /\ inflight' = (inflight \ {request}) \cup callsIssued(batch, batch.idx + 1)
                   /\ isCompressing' = isCompressing
              ELSE /\ batch' = IdleBatch
                   /\ inflight' = inflight \ {request}
                   /\ isCompressing' = FALSE
    /\ UNCHANGED <<quality, qualityPreset, outputFormat, revoked, nextId, estCall, isDownloading, zip, saved, zipCalls>>

removeImage(id) ==
    /\ \E i \in DOMAIN images : images[i].id = id
    /\ images' = SelectSeq(images, LAMBDA img : img.id # id)
    /\ UNCHANGED <<quality, qualityPreset, outputFormat, isCompressing, batch, inflight, revoked,
                   nextId, estCall, isDownloading, zip, saved, zipCalls>>

\* URL.revokeObjectURL on the preview of every record
revokeAll(imgs) ==
    [h \in DOMAIN revoked |->
        revoked[h] + Cardinality({i \in DOMAIN imgs : imgs[i].preview = h})]

\* a clear that also puts the selections back to their defaults
clearAll_reset ==
    /\ Len(images) > 0
    /\ revoked' = revokeAll(images)
    /\ images' = <<>>
    /\ quality' = 70
    /\ qualityPreset' = "medium"
    /\ outputFormat' = "original"
    /\ UNCHANGED <<isCompressing, batch, inflight, nextId, estCall, isDownloading, zip, saved, zipCalls>>

\* the clear button is rendered only when the collection is not empty
clearAll ==
    /\ Len(images) > 0
    /\ revoked' = revokeAll(images)
    /\ images' = <<>>
    /\ UNCHANGED <<quality, qualityPreset, outputFormat, isCompressing, batch, inflight, nextId, estCall, isDownloading, zip, saved, zipCalls>>

DropLists == UNION {[1..n -> Files] : n \in 1..MaxDrop}

Next ==
    \/ \E acceptedFiles \in DropLists : onDrop(acceptedFiles)
    \/ \E preset \in Presets : handleQualityPreset(preset)
    \/ \E value \in SliderValues : setQuality(value)
    \/ \E format \in OutputFormats : setOutputFormat(format)
    \/ handleCompress
    \/ \E request \in inflight : \E response \in Responses(request) : callReturns(request, response)
    \/ \E id \in 1..MaxUploads : removeImage(id)
    \/ clearAll

Spec == Init /\ [][Next]_vars

\* Every fetch is answered or fails in the end (the route answers every
\* request, a lost connection rejects the promise), and the continuation of
\* the awaited call then runs on the event loop.
callReturn ==
    \E request \in inflight : \E response \in Responses(request) : callReturns(request, response)

LiveSpec == Spec /\ WF_vars(callReturn)

(***************************************************************************)
(* The statistics of the panel, computed from the collection on every      *)
(* render, and the archive download.                                       *)
(***************************************************************************)
\* (a reduce over a sequence is the function acc of its prefixes: acc[0] is
\* the initial value, acc[i] the value after the i-th element)
completedCount == Len(SelectSeq(images, LAMBDA img : img.status = "done"))

totalOriginalSize ==
    LET acc[i \in 0..Len(images)] == IF i = 0 THEN 0 ELSE acc[i - 1] + images[i].originalSize
    IN  acc[Len(images)]

\* the measured size taken for the records that are done
totalEstimatedSize_blend ==
    LET acc[i \in 0..Len(images)] ==
            IF i = 0 THEN 0
            ELSE acc[i - 1] + (IF images[i].status = "done" /\ images[i].compressed # None
                               THEN images[i].compressed[1].size ELSE images[i].estimatedSize)
    IN  acc[Len(images)]

totalEstimatedSize ==
    LET acc[i \in 0..Len(images)] == IF i = 0 THEN 0 ELSE acc[i - 1] + images[i].estimatedSize
    IN  acc[Len(images)]

totalCompressedSize ==
    LET done == SelectSeq(images, LAMBDA img : img.status = "done" /\ img.compressed # None)
        acc[i \in 0..Len(done)] == IF i = 0 THEN 0 ELSE acc[i - 1] + done[i].compressed[1].size
    IN  acc[Len(done)]

\* the rate over the done records' own source sizes
overallPercentage_doneOnly ==
    LET done == SelectSeq(images, LAMBDA img : img.status = "done")
        acc[i \in 0..Len(done)] == IF i = 0 THEN 0 ELSE acc[i - 1] + done[i].originalSize
    IN  compressionPercent(totalCompressedSize, acc[Len(done)])

overallPercentage == compressionPercent(totalCompressedSize, totalOriginalSize)

\* originalName.replace(/\.[^/.]+$/, ''): the last dot and what follows it
\* are cut off, unless nothing or a slash follows that dot
nameWithoutExt(originalName) ==
    LET dots == {i \in DOMAIN originalName : originalName[i] = "."}
    IN  IF dots = {} THEN originalName
        ELSE LET last == CHOOSE i \in dots : \A j \in dots : j <= i
             IN  IF /\ last < Len(originalName)
                    /\ \A j \in (last + 1)..Len(originalName) : originalName[j] # "/"
                 THEN SubSeq(originalName, 1, last - 1)
                 ELSE originalName

\* `${nameWithoutExt}_compressed.${extension}` for a done record
fileName(img) ==
    LET originalName == IF img.original # None /\ img.original[1].name # <<>>
                        THEN img.original[1].name ELSE <<"i", "m", "a", "g", "e">>
        extension    == IF img.compressed[1].format # "" THEN img.compressed[1].format ELSE "jpg"
    IN  nameWithoutExt(originalName) \o <<"_compressed.", extension>>

\* img.compressed.base64.split(',')[1]
base64Data(img) == img.compressed[1].base64.data

\* zip.file(name, data) of JSZip: the entry of that name is added or replaced
zipFile(entries, name, data) ==
    {e \in entries : e.name # name} \cup {[name |-> name, data |-> data]}

\* the loop over completedImages: the archive after zip.file for each of them
zipOf(completedImages) ==
    LET entries[i \in 0..Len(completedImages)] ==
            IF i = 0 THEN {}
            ELSE zipFile(entries[i - 1], fileName(completedImages[i]), base64Data(completedImages[i]))
    IN  entries[Len(completedImages)]

\* no early return when nothing is done
handleDownloadZip_noReturn ==
    LET completedImages == SelectSeq(images, LAMBDA img : img.status = "done" /\ img.compressed # None)
    IN  /\ zip = None
        /\ zipCalls < MaxZipCalls
        /\ zipCalls' = zipCalls + 1
        /\ isDownloading' = TRUE
        /\ zip' = Some(zipOf(completedImages))
        /\ UNCHANGED <<images, quality, qualityPreset, outputFormat, isCompressing, batch, inflight,
                       revoked, nextId, estCall, saved>>

\* handleDownloadZip up to the awaited zip.generateAsync; zipCalls counts the
\* times the function has been entered
handleDownloadZip ==
    LET completedImages == SelectSeq(images, LAMBDA img : img.status = "done" /\ img.compressed # None)
    IN  /\ zip = None
        /\ zipCalls < MaxZipCalls
        /\ zipCalls' = zipCalls + 1
        /\ IF Len(completedImages) = 0
           THEN UNCHANGED <<isDownloading, zip>>
           ELSE /\ isDownloading' = TRUE
                /\ zip' = Some(zipOf(completedImages))
        /\ UNCHANGED <<images, quality, qualityPreset, outputFormat, isCompressing, batch, inflight,
                       revoked, nextId, estCall, saved>>

\* zip.generateAsync settles: the blob is saved under a name with the time
\* stamp, or the error is caught and logged; then setIsDownloading(false)
generateAsyncSettles(resolved, now) ==
    /\ zip # None
    /\ saved' = IF resolved
                THEN Append(saved, [name |-> <<"compressed_images_", now, ".zip">>, content |-> zip[1]])
                ELSE saved
    /\ zip' = None
    /\ isDownloading' = FALSE
    /\ UNCHANGED <<images, quality, qualityPreset, outputFormat, isCompressing, batch, inflight,
                   revoked, nextId, estCall, zipCalls>>

\* The collections the statistics and the archive are computed for: up to
\* MaxUploads records, each one as onDrop, handleCompress and compressImage
\* make it from a file, an output format and an answer of the endpoint.
RecordsOf(file, n, formats) ==
    LET pending == newImage(file, n)
    IN  {pending, markCompressing(<<pending>>)[1]} \cup
        UNION {{compressImage(pending, response) :
                   response \in {r \in ResponsesFor(formData(pending, quality, format),
                                                    ViewCompressedSizes) : r.kind \in {"ok", "http"}}} :
               format \in formats}

Collections(n, formats) ==
    UNION {{imgs \in [1..n -> UNION {RecordsOf(files[i], i, formats) : i \in 1..n}] :
               \A i \in 1..n : imgs[i] \in RecordsOf(files[i], i, formats)} :
           files \in [1..n -> ViewFiles]}

ViewInit ==
    /\ quality = 70
    /\ qualityPreset = "medium"
    /\ outputFormat = "original"
    /\ isCompressing = FALSE
    /\ batch = IdleBatch
    /\ inflight = {}
    /\ revoked = [h \in 1..MaxUploads |-> 0]
    /\ estCall = IdleCall
    /\ isDownloading = FALSE
    /\ zip = None
    /\ saved = <<>>
    /\ zipCalls = 0
    /\ \E n \in 0..MaxUploads :
          /\ nextId = n + 1
          /\ images \in Collections(n, OutputFormats)

ViewNext ==
    \/ handleDownloadZip
    \/ \E resolved \in BOOLEAN : \E now \in Timestamps : generateAsyncSettles(resolved, now)
    \/ \E id \in 1..MaxUploads : removeImage(id)
    \/ clearAll

ViewSpec == ViewInit /\ [][ViewNext]_vars

\* the statistics alone, on the collections of one output format and on what
\* removals leave of them
StatsInit ==
    /\ quality = 70
    /\ qualityPreset = "medium"
    /\ outputFormat = "original"
    /\ isCompressing = FALSE
    /\ batch = IdleBatch
    /\ inflight = {}
    /\ revoked = [h \in 1..MaxUploads |-> 0]
    /\ estCall = IdleCall
    /\ isDownloading = FALSE
    /\ zip = None
    /\ saved = <<>>
    /\ zipCalls = 0
    /\ \E n \in 0..MaxUploads :
          /\ nextId = n + 1
          /\ images \in Collections(n, {"original"})

StatsNext ==
    \/ \E id \in 1..MaxUploads : removeImage(id)
    \/ clearAll

StatsSpec == StatsInit /\ [][StatsNext]_vars

(***************************************************************************)
(* The estimator on its own: one call of estimateSize per behaviour, the   *)
(* arguments drawn from SourceSizes, the four presets and the whole range  *)
(* of the quality input; or uploads and selection changes alone.           *)
(***************************************************************************)
EstCalls == [originalSize : SourceSizes, preset : Presets, customQuality : SliderRange,
             result : {None}]

EstInit ==
    /\ images = <<>>
    /\ quality = 70
    /\ qualityPreset = "medium"
    /\ outputFormat = "original"
    /\ isCompressing = FALSE
    /\ batch = IdleBatch
    /\ inflight = {}
    /\ revoked = [h \in 1..MaxUploads |-> 0]
    /\ nextId = 1
    /\ estCall \in EstCalls \cup {IdleCall}
    /\ isDownloading = FALSE
    /\ zip = None
    /\ saved = <<>>
    /\ zipCalls = 0

estimateCall ==
    /\ estCall # IdleCall
    /\ estCall.result = None
    /\ estCall' = [estCall EXCEPT !.result =
                      Some(estimateSize(estCall.originalSize, estCall.preset, estCall.customQuality))]
    /\ UNCHANGED <<images, quality, qualityPreset, outputFormat, isCompressing, batch, inflight,
                   revoked, nextId, isDownloading, zip, saved, zipCalls>>

EstNext ==
    \/ estimateCall
    \/ /\ estCall = IdleCall
       /\ \/ \E acceptedFiles \in DropLists : onDrop(acceptedFiles)
          \/ \E preset \in Presets : handleQualityPreset(preset)
          \/ \E value \in SliderValues : setQuality(value)

EstSpec == EstInit /\ [][EstNext]_vars

(***************************************************************************)
(* Properties.                                                             *)
(***************************************************************************)
\* Math.round(x * (num / den)) in the arithmetic of JavaScript numbers
RoundedProduct(x, num, den) == MathRound(NumMul(NumFromInt(x), NumDiv(num, den)))

\* r is an integer nearest to the exact product x * num / den
NearestInteger(r, x, num, den) ==
    /\ 2 * (den * r - num * x) <= den
    /\ 2 * (num * x - den * r) <= den

NamedFactor == [high |-> 70, medium |-> 45, low |-> 25]

C9_EstimatePart ==
    (estCall.result # None /\ estCall.preset \in DOMAIN NamedFactor) =>
        LET x == estCall.originalSize
            f == NamedFactor[estCall.preset]
        IN  /\ estCall.result = Some(RoundedProduct(x, f, 100))
            /\ NearestInteger(estCall.result[1], x, f, 100)

C9_UploadPart ==
    \A i \in DOMAIN images' :
        (i > Len(images) /\ qualityPreset \in DOMAIN NamedFactor) =>
            LET x == images'[i].originalSize
                f == NamedFactor[qualityPreset]
            IN  /\ images'[i].estimatedSize = RoundedProduct(x, f, 100)
                /\ NearestInteger(images'[i].estimatedSize, x, f, 100)

\* C9: under the presets high, medium and low the estimate is the source
\* size times 0.70, 0.45 and 0.25, rounded to an integer (Math.round of the
\* product, an integer nearest to the exact product), whatever the quality
\* value; a record created by an upload carries this value for the preset
\* selected at that moment.
C9_PresetEstimate == [](C9_EstimatePart) /\ [][C9_UploadPart]_vars

C9_Witness ==
    /\ estCall.originalSize = 1000000
    /\ estCall.preset = "medium"
    /\ estCall.customQuality = 10
    /\ estCall.result = Some(450000)

\* C10: under the custom preset the estimate never decreases when the
\* quality value goes up by one within 10..100, it is the source size times
\* 0.16, rounded, at quality 10 and the source size times 0.70, rounded, at
\* quality 100.
C10_CustomEstimate ==
    (estCall.result # None /\ estCall.preset = "custom") =>
        LET x == estCall.originalSize
            q == estCall.customQuality
            r == estCall.result[1]
        IN  /\ q < 100 => r <= estimateSize(x, "custom", q + 1)
            /\ q = 10 => r = RoundedProduct(x, 16, 100) /\ NearestInteger(r, x, 16, 100)
            /\ q = 100 => r = RoundedProduct(x, 70, 100) /\ NearestInteger(r, x, 70, 100)

C10_Witness ==
    /\ estCall.originalSize = 1000000
    /\ estCall.preset = "custom"
    /\ estCall.customQuality = 10
    /\ estCall.result = Some(160000)

\* the record of the collection imgs that has the given id
HasId(imgs, id) == \E i \in DOMAIN imgs : imgs[i].id = id
RecordOf(imgs, id) == imgs[CHOOSE i \in DOMAIN imgs : imgs[i].id = id]
IndexOf(imgs, id) == CHOOSE i \in DOMAIN imgs : imgs[i].id = id

\* the record agrees with the way its own call ended
AgreesWith(record, response) ==
    IF response.kind = "ok"
    THEN /\ record.status = "done"
         /\ record.original = Some(response.body[1].original)
         /\ record.compressed = Some(response.body[1].compressed)
         /\ record.compressionRatio = Some(response.body[1].compressionRatio)
    ELSE /\ record.status = "error"
         /\ record.error # None
         /\ record.error # Some("")

\* the request compressImage makes for the k-th record the batch selected
OwnRequest(k) == formData(batch.pendingImages[k], batch.quality, batch.outputFormat)

\* the step in which the last call of a batch returns
C1_Step ==
    (batch.active /\ ~batch'.active) =>
        /\ \A k \in DOMAIN batch.returned : batch.returned[k].response \in Responses(OwnRequest(k))
        /\ \A request \in inflight : \A response \in Responses(request) :
              callReturns(request, response) =>
                  LET all == Append(batch.returned, [id |-> request.id, response |-> response])
                  IN  /\ Len(all) = Len(batch.pendingImages)
                      /\ request = OwnRequest(Len(all))
                      /\ \A k \in DOMAIN all :
                            /\ all[k].id = batch.pendingImages[k].id
                            /\ HasId(images', all[k].id) =>
                                  AgreesWith(RecordOf(images', all[k].id), all[k].response)

\* C1: when a batch ends, the call of every record it selected has been made
\* and has returned, whatever the other calls did; every such record still in
\* the collection is done with the data of its own response if its call
\* succeeded, and is in error with a message if its call failed.
C1_BatchOutcome == [][C1_Step]_vars

C1_Witness ==
    /\ ~isCompressing
    /\ \E i, j \in DOMAIN images :
          i < j /\ images[i].status = "error" /\ images[j].status = "done"

Allowed == {<<"pending", "pending">>, <<"compressing", "compressing">>, <<"done", "done">>,
            <<"error", "error">>, <<"pending", "compressing">>, <<"compressing", "done">>,
            <<"compressing", "error">>}

C2_Step ==
    \A i \in DOMAIN images' :
        IF HasId(images, images'[i].id)
        THEN <<RecordOf(images, images'[i].id).status, images'[i].status>> \in Allowed
        ELSE images'[i].status = "pending"

\* C2: in every step a record keeps its status or goes from pending to
\* compressing or from compressing to done or error; a record new to the
\* collection is pending.
C2_StatusTransitions == [][C2_Step]_vars

C2_Witness ==
    \E i, j \in DOMAIN images :
        images[i].status = "done" /\ images[j].status = "error" /\ nextId > MaxUploads

\* C3: at most one call is in flight; the calls of a batch are issued in the
\* order of the collection, each one after every earlier one has returned.
C3_Serialized ==
    /\ Cardinality(inflight) <= 1
    /\ inflight # {} => batch.active
    /\ batch.active =>
          /\ Len(batch.issued) = batch.idx
          /\ Len(batch.returned) = batch.idx - 1
          /\ \A k \in DOMAIN batch.issued : batch.issued[k] = batch.pendingImages[k].id
          /\ \A k \in DOMAIN batch.returned : batch.returned[k].id = batch.issued[k]
          /\ inflight = {formData(batch.pendingImages[batch.idx], batch.quality, batch.outputFormat)}
          /\ \A a, b \in DOMAIN batch.pendingImages :
                (a < b /\ HasId(images, batch.pendingImages[a].id)
                       /\ HasId(images, batch.pendingImages[b].id)) =>
                    IndexOf(images, batch.pendingImages[a].id) < IndexOf(images, batch.pendingImages[b].id)

C3_Witness ==
    /\ batch.active
    /\ batch.idx = 2
    /\ Len(batch.returned) = 1
    /\ Cardinality(inflight) = 1

\* C4: a record has a result and a compression ratio exactly when it is
\* done, and an error message only when it is in error.
C4_ResultIffDone ==
    \A i \in DOMAIN images :
        /\ images[i].status = "done" => images[i].compressed # None /\ images[i].compressionRatio # None
        /\ images[i].status # "done" => images[i].compressed = None /\ images[i].compressionRatio = None
        /\ images[i].error # None => images[i].status = "error"

C4_Witness ==
    \E i, j \in DOMAIN images :
        /\ images[i].status = "done" /\ images[i].compressed # None
        /\ images[j].status = "error" /\ images[j].error # None

\* C5: every record that is not done carries the estimate of its source
\* size under the preset and quality value now selected.
C5_EstimatesCurrent ==
    \A i \in DOMAIN images :
        images[i].status # "done" =>
            images[i].estimatedSize = EstimateMemo[images[i].originalSize, qualityPreset, quality]

SelectionChanged == qualityPreset' # qualityPreset \/ quality' # quality

\* C6 as stated: a change of the preset or of the quality value leaves every
\* record that is done as it was, its estimate included.
C6_DoneUntouched ==
    [][SelectionChanged =>
          \A i \in DOMAIN images : images[i].status = "done" => images'[i] = images[i]]_vars

\* C6 amended: a change of the preset or of the quality value leaves the
\* status, the result, the compression ratio and every other field of a done
\* record as they were, except its estimate, which is recomputed for the
\* new selection as for every other record.
C6_DoneKeepsResult ==
    [][SelectionChanged =>
          /\ Len(images') = Len(images)
          /\ \A i \in DOMAIN images :
                images[i].status = "done" =>
                    images'[i] = [images[i] EXCEPT !.estimatedSize =
                                     EstimateMemo[images[i].originalSize, qualityPreset', quality']]]_vars

\* a record done in the running batch, which began under medium, carries
\* the estimate of the preset selected since
C6_Witness ==
    /\ qualityPreset = "low"
    /\ batch.active
    /\ \E k \in DOMAIN batch.pendingImages : \E i \in DOMAIN images :
          /\ images[i].id = batch.pendingImages[k].id
          /\ batch.pendingImages[k].estimatedSize = EstimateMemo[images[i].originalSize, "medium", 70]
          /\ images[i].status = "done"
          /\ images[i].compressed # None
          /\ images[i].estimatedSize = EstimateMemo[images[i].originalSize, "low", 50]

\* C7: removing a record releases its preview handle, so that it has been
\* released exactly once after the removal, and no handle is ever released
\* twice.
C7_RemoveReleasesOnce ==
    /\ [][\A i \in DOMAIN images :
            removeImage(images[i].id) => revoked'[images[i].preview] = 1]_vars
    /\ [](\A h \in DOMAIN revoked : revoked[h] <= 1)

\* C8: a clear empties the collection, releases the preview handle of every
\* record that was in it and leaves the quality value, the preset and the
\* output format as they were.
C8_ClearKeepsSelection ==
    [][clearAll =>
          /\ images' = <<>>
          /\ \A i \in DOMAIN images : revoked'[images[i].preview] = revoked[images[i].preview] + 1
          /\ \A h \in DOMAIN revoked :
                (\A i \in DOMAIN images : images[i].preview # h) => revoked'[h] = revoked[h]
          /\ quality' = quality
          /\ qualityPreset' = qualityPreset
          /\ outputFormat' = outputFormat]_vars

C8_Witness ==
    /\ images = <<>>
    /\ revoked[1] = 1
    /\ revoked[2] = 1
    /\ qualityPreset = "custom"
    /\ quality = 55
    /\ outputFormat = "webp"

\* the record with the given id is being compressed
Compressing(id) == HasId(images, id) /\ RecordOf(images, id).status = "compressing"

\* the record with the given id is done or in error, or has been removed
Settled(id) == HasId(images, id) => RecordOf(images, id).status \in {"done", "error"}

\* C11: if every call returns in the end, every record a batch marked
\* compressing ends up done or in error (as long as it is in the collection),
\* the flag isCompressing goes back to false, and in the step that puts it
\* back no record is left compressing.
C11_BatchTerminates ==
    /\ \A id \in 1..MaxUploads : Compressing(id) ~> Settled(id)
    /\ isCompressing ~> ~isCompressing
    /\ [][(isCompressing /\ ~isCompressing') =>
              \A i \in DOMAIN images' : images'[i].status # "compressing"]_vars

C11_Witness ==
    /\ ~isCompressing
    /\ inflight = {}
    /\ Len(images) = 2
    /\ images[1].status = "done"
    /\ images[2].status = "done"

\* the sum of the values f[i] over the indices i in S
RECURSIVE SumOf(_, _)
SumOf(f, S) == IF S = {} THEN 0
               ELSE LET i == CHOOSE i \in S : TRUE IN f[i] + SumOf(f, S \ {i})

Done == {i \in DOMAIN images : images[i].status = "done"}

\* C12 as stated: the total estimate is the sum of the estimates of the
\* records that are not done plus the sum of the compressed sizes of the
\* records that are done.
C12_TotalBlends ==
    totalEstimatedSize =
        SumOf([i \in DOMAIN images |-> images[i].estimatedSize], DOMAIN images \ Done)
        + SumOf([i \in DOMAIN images |-> IF i \in Done THEN images[i].compressed[1].size ELSE 0], Done)

\* C12 amended: the total estimate is the sum of the estimates of all
\* records, those that are done included.
C12_TotalOfEstimates ==
    totalEstimatedSize =
        SumOf([i \in DOMAIN images |-> images[i].estimatedSize], DOMAIN images \ Done)
        + SumOf([i \in DOMAIN images |-> images[i].estimatedSize], Done)

C12_Witness ==
    /\ Len(images) = 2
    /\ images[1].status = "done"
    /\ images[1].compressed[1].size # images[1].estimatedSize
    /\ images[2].status = "error"
    /\ totalEstimatedSize = images[1].estimatedSize + images[2].estimatedSize

\* r is an integer nearest to (1 - compressed / original) * 100
NearestRate(r, compressed, original) ==
    /\ 2 * (r * original - 100 * (original - compressed)) <= original
    /\ 2 * (100 * (original - compressed) - r * original) <= original

\* Math.round((1 - compressed / original) * 100) in the arithmetic of
\* JavaScript numbers, for compressed <= original
RoundedRate(compressed, original) ==
    MathRound(NumMul(NumSub(NumFromInt(1), NumQuotient(compressed, original)), NumFromInt(100)))

\* C13: the overall percentage is (1 - totalCompressed / totalOriginal) * 100
\* rounded to an integer (Math.round of that expression, an integer nearest
\* to its exact value), totalOriginal being the sum of the source sizes of
\* all records and totalCompressed the sum of the compressed sizes of the
\* done records; it is 0 when totalOriginal is 0.
C13_OverallPercentage ==
    LET original   == SumOf([i \in DOMAIN images |-> images[i].originalSize], DOMAIN images)
        compressed == SumOf([i \in DOMAIN images |->
                                IF i \in Done THEN images[i].compressed[1].size ELSE 0], Done)
    IN  /\ original = 0 => overallPercentage = 0
        /\ original > 0 => NearestRate(overallPercentage, compressed, original)
        /\ (original > 0 /\ compressed <= original) =>
              overallPercentage = RoundedRate(compressed, original)

C13_Witness ==
    /\ Len(images) = 2
    /\ \A i \in DOMAIN images : images[i].status = "done"
    /\ {<<images[i].originalSize, images[i].compressed[1].size>> : i \in DOMAIN images}
          = {<<1000000, 300000>>, <<500000, 200000>>}
    /\ overallPercentage = 67

\* C14: a call of handleDownloadZip made when no record is done builds no
\* archive, saves nothing and leaves every state cell as it was; no archive
\* without entries is ever saved.
C14_NoDoneNoArchive ==
    /\ [][(zipCalls' # zipCalls /\ Done = {}) =>
              /\ zip' = None
              /\ saved' = saved
              /\ isDownloading' = isDownloading
              /\ UNCHANGED <<images, quality, qualityPreset, outputFormat, isCompressing, batch,
                             inflight, revoked, nextId>>]_vars
    /\ [](\A k \in DOMAIN saved : saved[k].content # {})

\* the function has been called on a collection, still whole, in which no
\* record is done
C14_Witness ==
    /\ zipCalls > 0
    /\ Len(images) > 0
    /\ nextId = Len(images) + 1
    /\ Done = {}
    /\ zip = None
    /\ ~isDownloading
    /\ saved = <<>>

\* C15: the archive built by a call of handleDownloadZip has one entry for
\* every record that is done at the call, each with that record's payload,
\* whatever the file names and encodings; the archive saved is the one built.
C15_ArchiveHoldsAllDone ==
    /\ [][(zipCalls' # zipCalls /\ zip' # None) =>
              /\ Cardinality(zip'[1]) = Cardinality(Done)
              /\ \A i \in Done : \E e \in zip'[1] : e.data = images[i].compressed[1].base64.data]_vars
    /\ [][saved' # saved => saved'[Len(saved')].content = zip[1]]_vars

\* the step in which the open call of the running batch returns
C16_ReturnStep ==
    (batch.active /\ batch' # batch) =>
        \A request \in inflight :
            /\ ~HasId(images, request.id) => images' = images
            /\ HasId(images, request.id) =>
                  /\ Len(images') = Len(images)
                  /\ \A i \in DOMAIN images : images[i].id # request.id => images'[i] = images[i]
            /\ batch.idx < Len(batch.pendingImages) =>
                  /\ batch'.active
                  /\ batch'.idx = batch.idx + 1
                  /\ inflight' = {OwnRequest(batch.idx + 1)}
            /\ batch.idx = Len(batch.pendingImages) => ~batch'.active /\ ~isCompressing'

\* C16: a record that has left the collection never comes back (every record
\* of the next state was there before or has a new id); the return of a call
\* whose record is gone leaves the collection as it is, the return of any
\* call changes no other record, and the batch goes on to its next record and
\* comes to its end.
C16_RemovedStaysRemoved ==
    /\ [][\A i \in DOMAIN images' : HasId(images, images'[i].id) \/ images'[i].id >= nextId]_vars
    /\ [][C16_ReturnStep]_vars
    /\ batch.active ~> ~batch.active

\* the first call of the running batch returned when its record was gone,
\* and the second call is open with its record in the collection
C16_Witness ==
    /\ batch.active
    /\ batch.idx = 2
    /\ ~batch.returned[1].present
    /\ ~HasId(images, batch.returned[1].id)
    /\ HasId(images, batch.pendingImages[2].id)

BatchIds == {batch.pendingImages[k].id : k \in DOMAIN batch.pendingImages}

C17_Step ==
    /\ (~batch.active /\ batch'.active) =>
          /\ batch'.quality = quality
          /\ batch'.outputFormat = outputFormat
          /\ batch'.pendingImages = SelectSeq(images, LAMBDA img : img.status = "pending")
    /\ (batch.active /\ batch'.active) =>
          /\ batch'.quality = batch.quality
          /\ batch'.outputFormat = batch.outputFormat
          /\ batch'.pendingImages = batch.pendingImages
    /\ batch'.active =>
          \A request \in inflight' :
              /\ parseInt(request.quality) = batch'.quality
              /\ request.format = batch'.outputFormat
              /\ \E k \in DOMAIN batch'.pendingImages : request.id = batch'.pendingImages[k].id
    /\ batch.active =>
          \A i \in DOMAIN images' :
              (/\ images'[i].id \notin BatchIds
               /\ HasId(images, images'[i].id) => RecordOf(images, images'[i].id).status = "pending")
                  => images'[i].status = "pending"

\* C17: a batch takes the quality value, the output format and the pending
\* records of the moment it starts and keeps them to its end; every call it
\* makes carries that quality and that format, whatever is selected
\* meanwhile, and is made for one of those records; a record uploaded while
\* the batch runs stays pending.
C17_BatchParameters == [][C17_Step]_vars

\* the second call of a batch started under medium/70 is open with the
\* parameters of the start, the selection having changed to low/50 and
\* another format before the first call returned
C17_Witness ==
    /\ batch.active
    /\ batch.idx = 2
    /\ batch.quality = 70
    /\ qualityPreset = "low"
    /\ quality = 50
    /\ outputFormat # batch.outputFormat
    /\ HasId(images, batch.pendingImages[1].id)
    /\ RecordOf(images, batch.pendingImages[1].id).status \in {"done", "error"}
    /\ RecordOf(images, batch.pendingImages[1].id).estimatedSize = batch.pendingImages[1].estimatedSize
    /\ inflight = {formData(batch.pendingImages[2], 70, batch.outputFormat)}
====
